---- MODULE Spec2Model ----
(***************************************************************************)
(* Model of util/flogo.go (package util of the flogo cli): the import      *)
(* path splitter, the reference extractor, the import reconciler, the     *)
(* contribution descriptor locator and the legacy import scanner.          *)
(*                                                                         *)
(* Every function is pure apart from its file reads, so each action below *)
(* is one call: it draws the argument and applies the function to it.     *)
(* Strings are sequences of one-character strings, so that splitting,     *)
(* trimming, searching and slicing are computed character by character,   *)
(* as the Go code computes them.                                           *)
(***************************************************************************)
EXTENDS Integers, Sequences, FiniteSets, TLC

VARIABLES
    pc,         \* "call" before the function runs, "done" after it ended
    op,         \* the function called
    arg,        \* its argument (for a path: what the path holds)
    ret,        \* its return value (Nil when it returns nil or never returns)
    err,        \* its returned error (NoErr when nil)
    crash,      \* "none", "panic" (runtime panic) or "fatal" (log.Fatal)
    called,     \* the unexported helpers the call went through
    refs,       \* GetImportsFromJSON's local refs (flogo.go:279)
    openFiles   \* file handles opened by os.Open and not closed

vars == <<pc, op, arg, ret, err, crash, called, refs, openFiles>>

(***************************************************************************)
(* Bounds of the model.                                                    *)
(***************************************************************************)
MaxPathLen == 5     \* longest import path handed to ParseImportPath
MaxSeqLen  == 2     \* longest JSON array inside a config tree
MaxElems   == 2     \* most triggers, resources and actions of a config, together
MaxImports == 2     \* most declared imports of a config
MaxEntries == 3     \* most entries of a contribution directory
MaxTail    == 4     \* most characters after the "ref" key on a scanned line
MaxLines   == 2     \* most lines of an application descriptor file

(***************************************************************************)
(* Go values.                                                              *)
(***************************************************************************)
Nil   == [nil |-> TRUE]
NoErr == [kind |-> "nil"]
Error(kind, text) == [kind |-> kind, text |-> text]

Q == "\""           \* the double-quote character

\* all strings over alphabet of length at most n
StringsUpTo(alphabet, n) == UNION {[1..k -> alphabet] : k \in 0..n}

(***************************************************************************)
(* The state before a call: nothing returned, no handle open.              *)
(***************************************************************************)
Init ==
    /\ pc = "call"
    /\ op = "none"
    /\ arg = Nil
    /\ ret = Nil
    /\ err = NoErr
    /\ crash = "none"
    /\ called = {}
    /\ refs = <<>>
    /\ openFiles = 0

(***************************************************************************)
(* Go standard library, package strings.                                   *)
(***************************************************************************)
\* s[from:] with a 0-based offset; Go panics unless 0 <= from <= len(s),
\* which the callers test first
SliceFrom(s, from) == SubSeq(s, from + 1, Len(s))

\* s[:to]
SliceTo(s, to) == SubSeq(s, 1, to)

\* the 0-based offset of the first occurrence of sub at or after offset i
RECURSIVE IndexFrom(_, _, _)
IndexFrom(s, sub, i) ==
    IF i + Len(sub) > Len(s) THEN -1
    ELSE IF SubSeq(s, i + 1, i + Len(sub)) = sub THEN i
         ELSE IndexFrom(s, sub, i + 1)

\* strings.Index: 0-based offset of the first occurrence of sub, or -1
Index(s, sub) == IndexFrom(s, sub, 0)

\* strings.Contains
Contains(s, sub) == Index(s, sub) > -1

\* strings.Split with a non-empty separator: every occurrence splits
RECURSIVE Split(_, _)
Split(s, sep) ==
    LET i == Index(s, sep)
    IN  IF i = -1 THEN <<s>>
        ELSE <<SliceTo(s, i)>> \o Split(SliceFrom(s, i + Len(sep)), sep)

\* strings.Trim with a one-character cutset
RECURSIVE TrimLeft(_, _)
TrimLeft(s, c) == IF s # <<>> /\ Head(s) = c THEN TrimLeft(Tail(s), c) ELSE s

RECURSIVE TrimRight(_, _)
TrimRight(s, c) ==
    IF s # <<>> /\ s[Len(s)] = c THEN TrimRight(SliceTo(s, Len(s) - 1), c) ELSE s

Trim(s, c) == TrimRight(TrimLeft(s, c), c)

(***************************************************************************)
(* ParseImportPath, flogo.go:246-257.                                      *)
(***************************************************************************)
ParseImportPath(path) ==
    IF Contains(path, <<"@">>)
    THEN LET results == Split(path, <<"@">>) IN <<results[1], results[2]>>
    ELSE <<path, <<>>>>

PathChars == {"a", "/", "@"}
Paths     == StringsUpTo(PathChars, MaxPathLen)

CallParseImportPath ==
    /\ pc = "call"
    /\ \E path \in Paths :
          /\ arg' = path
          /\ ret' = ParseImportPath(path)
    /\ pc' = "done"
    /\ op' = "ParseImportPath"
    /\ UNCHANGED <<err, crash, called, refs, openFiles>>

\* C4: ParseImportPath splits on the first '@' only: it returns the part of
\* the path before the first '@' and the whole remainder after it (other '@'
\* characters included), and (path, "") when the path holds no '@'.
C4_SplitsOnFirstAtOnly ==
    (pc = "done" /\ op = "ParseImportPath") =>
        LET at == Index(arg, <<"@">>)
        IN  /\ crash = "none"
            /\ ret = IF at = -1 THEN <<arg, <<>>>>
                     ELSE <<SliceTo(arg, at), SliceFrom(arg, at + 1)>>

(***************************************************************************)
(* JSON values as encoding/json decodes them into interface{}: a string,   *)
(* a map[string]interface{}, a []interface{}, or another scalar (float64,  *)
(* bool, nil), for which the number stands: the code treats them alike.    *)
(***************************************************************************)
JStr(s)  == [t |-> "str", s |-> s]
JNum     == [t |-> "num"]
JMap(kv) == [t |-> "map", kv |-> kv]
JSeq(e)  == [t |-> "seq", e |-> e]

SeqsUpTo(S, n) == UNION {[1..k -> S] : k \in 0..n}

\* the maps whose keys are drawn from keys and whose values from values
MapsOver(keys, values) == {JMap(kv) : kv \in UNION {[D -> values] : D \in SUBSET keys}}

Keys     == {"ref", "other"}
RefStrs  == {<<"a">>, <<"#", "b", "#">>}
Atoms    == {JStr(s) : s \in RefStrs} \cup {JNum}
FlatMaps == MapsOver(Keys, Atoms)
RefMaps  == MapsOver({"ref"}, Atoms)
RefSeqs  == {JSeq(e) : e \in SeqsUpTo(RefMaps, MaxSeqLen)}
Nested   == MapsOver(Keys, Atoms \cup FlatMaps \cup RefSeqs)
Trees    == Atoms \cup Nested \cup RefSeqs
                \cup {JSeq(e) : e \in SeqsUpTo(FlatMaps, MaxSeqLen)}

\* every order in which a Go range statement may visit the keys of a map
Orders(S) ==
    {p \in [1..Cardinality(S) -> S] : \A i, j \in DOMAIN p : p[i] = p[j] => i = j}

(***************************************************************************)
(* extractDependencies, flogo.go:321-344.  A run ends with the references  *)
(* collected, or in a panic when val.(string) meets a non-string (line     *)
(* 329).  The operator gives every outcome the map iteration order allows. *)
(***************************************************************************)
Collected(rs) == [refs |-> rs, panic |-> FALSE]
Panicked      == [refs |-> <<>>, panic |-> TRUE]

RECURSIVE extractDependencies(_)
RECURSIVE RangeMap(_, _, _, _)
RECURSIVE RangeSeq(_, _, _)

\* lines 326-334: the range over the map in the order `order`, from its
\* i-th key on, with rs collected so far
RangeMap(kv, order, i, rs) ==
    IF i > Len(order) THEN {Collected(rs)}
    ELSE LET key == order[i]
             val == kv[key]
         IN  IF key = "ref"
             THEN IF val.t = "str"
                  THEN {Collected(Append(rs, Trim(val.s, "#")))}
                  ELSE {Panicked}
             ELSE UNION {IF o.panic THEN {Panicked}
                         ELSE RangeMap(kv, order, i + 1, rs \o o.refs)
                            : o \in extractDependencies(val)}

\* lines 337-339: the loop over the slice from its i-th element on
RangeSeq(e, i, rs) ==
    IF i > Len(e) THEN {Collected(rs)}
    ELSE UNION {IF o.panic THEN {Panicked}
                ELSE RangeSeq(e, i + 1, rs \o o.refs)
                   : o \in extractDependencies(e[i])}

extractDependencies(resource) ==
    CASE resource.t = "map" ->
            UNION {RangeMap(resource.kv, order, 1, <<>>)
                      : order \in Orders(DOMAIN resource.kv)}
      [] resource.t = "seq" -> RangeSeq(resource.e, 1, <<>>)
      [] OTHER -> {Collected(<<>>)}

CallExtractDependencies ==
    /\ pc = "call"
    /\ \E resource \in Trees :
          /\ arg' = resource
          /\ \E o \in extractDependencies(resource) :
                /\ ret' = IF o.panic THEN Nil ELSE o.refs
                /\ crash' = IF o.panic THEN "panic" ELSE "none"
    /\ pc' = "done"
    /\ op' = "extractDependencies"
    /\ UNCHANGED <<err, called, refs, openFiles>>

\* C1: for a mapping with a "ref" key holding a string, extractDependencies
\* returns exactly the one-element sequence of that string with its leading
\* and trailing '#' removed, whatever the other keys and the iteration order.
C1_RefShortCircuits ==
    (/\ pc = "done"
     /\ op = "extractDependencies"
     /\ arg.t = "map"
     /\ "ref" \in DOMAIN arg.kv
     /\ arg.kv["ref"].t = "str"
     /\ crash = "none")
        => ret = <<Trim(arg.kv["ref"].s, "#")>>

(***************************************************************************)
(* Go standard library, path.Base: the last element of a slash-separated   *)
(* path, trailing slashes removed; "." for the empty path and "/" for a    *)
(* path of slashes only.                                                   *)
(***************************************************************************)
Base(path) ==
    IF path = <<>> THEN <<".">>
    ELSE LET p     == TrimRight(path, "/")
             parts == Split(p, <<"/">>)
         IN  IF p = <<>> THEN <<"/">> ELSE parts[Len(parts)]

(***************************************************************************)
(* The import parser (ParseImport and the Import accessors GoImportPath    *)
(* and Alias), which flogo.go calls and does not define.  An import string *)
(* is "[alias ]path[@version]"; a string without a path does not parse.    *)
(***************************************************************************)
ParseImport(s) ==
    LET sp   == Index(s, <<" ">>)
        rest == IF sp = -1 THEN s ELSE SliceFrom(s, sp + 1)
        pv   == ParseImportPath(rest)
    IN  IF pv[1] = <<>>
        THEN [imp |-> Nil, err |-> Error("ParseError", s)]
        ELSE [imp |-> [alias   |-> IF sp = -1 THEN <<>> ELSE SliceTo(s, sp),
                       path    |-> pv[1],
                       version |-> pv[2]],
              err |-> NoErr]

GoImportPath(flogoImport) == flogoImport.path

Alias(flogoImport) == flogoImport.alias

(***************************************************************************)
(* getRefsFromConfig, flogo.go:309-319.  Every outcome the three           *)
(* extractions allow; a panic in one ends the run.                         *)
(***************************************************************************)
Then(first, second) ==
    UNION {IF a.panic THEN {Panicked}
           ELSE {IF b.panic THEN Panicked ELSE Collected(a.refs \o b.refs)
                    : b \in second}
              : a \in first}

\* the mutant of getRefsFromConfig that walks the actions first
getRefsFromConfig_ActionsFirst(appConfig) ==
    Then(Then(extractDependencies(JSeq(appConfig.Actions)),
              extractDependencies(JSeq(appConfig.Triggers))),
         extractDependencies(JSeq(appConfig.Resources)))

getRefsFromConfig(appConfig) ==
    Then(Then(extractDependencies(JSeq(appConfig.Triggers)),
              extractDependencies(JSeq(appConfig.Resources))),
         extractDependencies(JSeq(appConfig.Actions)))

(***************************************************************************)
(* GetImportsFromJSON, flogo.go:259-307.                                   *)
(***************************************************************************)
\* the mutant of ImportMatches that forgets the alias
ImportMatches_PathOnly(flogoImport, key) ==
    Base(GoImportPath(flogoImport)) = key

\* line 290: does the declared import answer to the reference key
ImportMatches(flogoImport, key) ==
    Base(GoImportPath(flogoImport)) = key \/ Alias(flogoImport) = key

\* lines 285-295: the scan of the declared imports for one key, from the
\* j-th import on
RECURSIVE ScanImports(_, _, _, _, _)
ScanImports(imports, key, j, found, result) ==
    IF j > Len(imports) THEN [err |-> NoErr, found |-> found, result |-> result]
    ELSE LET parsed == ParseImport(imports[j])
         IN  IF parsed.err # NoErr
             THEN [err |-> parsed.err, found |-> found, result |-> Nil]
             ELSE IF ImportMatches(parsed.imp, key)
                  THEN ScanImports(imports, key, j + 1, TRUE,
                                   Append(result, parsed.imp))
                  ELSE ScanImports(imports, key, j + 1, found, result)

\* lines 282-306: the loop over the discovered references from the i-th on
RECURSIVE Reconcile(_, _, _, _)
Reconcile(keys, imports, i, result) ==
    IF i > Len(keys) THEN [ret |-> result, err |-> NoErr]
    ELSE LET scan == ScanImports(imports, keys[i], 1, FALSE, result)
         IN  IF scan.err # NoErr THEN [ret |-> Nil, err |-> scan.err]
             ELSE IF ~scan.found
                  THEN LET parsed == ParseImport(keys[i])
                       IN  IF parsed.err # NoErr
                           THEN [ret |-> Nil, err |-> parsed.err]
                           ELSE Reconcile(keys, imports, i + 1,
                                          Append(scan.result, parsed.imp))
                  ELSE Reconcile(keys, imports, i + 1, scan.result)

\* what a path may hold: nothing (os.Open fails), something ReadAll cannot
\* read (a directory), bytes that are not the expected JSON, or the JSON
\* value decoded
Missing    == [status |-> "missing"]
Unreadable == [status |-> "unreadable"]
Malformed  == [status |-> "malformed"]
Holding(json) == [status |-> "ok", json |-> json]

\* every way the call may end: the value and error returned, a panic, the
\* references found and the handles left open
GetImportsFromJSON(file) ==
    CASE file.status = "missing" ->
            {[ret |-> Nil, err |-> Error("IOError", "open"), crash |-> "none",
              refs |-> <<>>, leaked |-> 0]}
      [] file.status = "unreadable" ->
            {[ret |-> Nil, err |-> Error("IOError", "read"), crash |-> "none",
              refs |-> <<>>, leaked |-> 1]}
      [] file.status = "malformed" ->
            {[ret |-> Nil, err |-> Error("ParseError", "unmarshal"),
              crash |-> "none", refs |-> <<>>, leaked |-> 1]}
      [] OTHER ->
            {IF o.panic
             THEN [ret |-> Nil, err |-> NoErr, crash |-> "panic",
                   refs |-> <<>>, leaked |-> 1]
             ELSE LET r == Reconcile(o.refs, file.json.Imports, 1, <<>>)
                  IN  [ret |-> r.ret, err |-> r.err, crash |-> "none",
                       refs |-> o.refs, leaked |-> 1]
                : o \in getRefsFromConfig(file.json)}

\* the declared imports: "x/a@v" answers to a by its path, "b x/c" to b by
\* its alias, "x/b" to b by its path, and "@v" does not parse
ImportStrs == {<<"x", "/", "a", "@", "v">>, <<"b", " ", "x", "/", "c">>,
               <<"x", "/", "b">>, <<"@", "v">>}

\* the elements of triggers, resources and actions: a mapping with a "ref"
\* and, once, with a sibling that holds a reference of its own
ConfigElems ==
    {JMap([ref |-> v]) : v \in Atoms}
        \cup {JMap([ref   |-> JStr(<<"#", "b", "#">>),
                    other |-> JMap([ref |-> JStr(<<"a">>)])])}

\* a decoded AppConfig value (flogo.go:48-53): the elements e dealt to
\* triggers, resources and actions in order
AppConfig(imports, e, p, q) ==
    [Imports   |-> imports,
     Triggers  |-> SliceTo(e, p),
     Resources |-> SubSeq(e, p + 1, q),
     Actions   |-> SliceFrom(e, q)]

\* one call on a path that holds file
GetImportsFromJSONOn(file) ==
    /\ arg' = file
    /\ \E o \in GetImportsFromJSON(file) :
          /\ ret' = o.ret
          /\ err' = o.err
          /\ crash' = o.crash
          /\ refs' = o.refs
          /\ openFiles' = openFiles + o.leaked

CallGetImportsFromJSON ==
    /\ pc = "call"
    /\ \/ \E file \in {Missing, Unreadable, Malformed} : GetImportsFromJSONOn(file)
       \/ \E imports \in SeqsUpTo(ImportStrs, MaxImports),
             e \in SeqsUpTo(ConfigElems, MaxElems) :
             \E q \in 0..Len(e) : \E p \in 0..q :
                GetImportsFromJSONOn(Holding(AppConfig(imports, e, p, q)))
    /\ pc' = "done"
    /\ op' = "GetImportsFromJSON"
    /\ UNCHANGED called

Returned(f) == pc = "done" /\ op = f /\ crash = "none" /\ err = NoErr

\* the parsed declared imports that answer to key, in declared order
RECURSIVE Answering(_, _)
Answering(imports, key) ==
    IF imports = <<>> THEN <<>>
    ELSE LET d == ParseImport(Head(imports)).imp
         IN  (IF Base(d.path) = key \/ d.alias = key THEN <<d>> ELSE <<>>)
                \o Answering(Tail(imports), key)

\* what the claim gives for one key: the answering declared imports, or one
\* import parsed from the key when there is none
EntriesFor(imports, key) ==
    LET answering == Answering(imports, key)
    IN  IF answering = <<>> THEN <<ParseImport(key).imp>> ELSE answering

RECURSIVE EntriesForAll(_, _)
EntriesForAll(imports, keys) ==
    IF keys = <<>> THEN <<>>
    ELSE EntriesFor(imports, Head(keys)) \o EntriesForAll(imports, Tail(keys))

\* C2: for every discovered reference, every declared import whose path's
\* last segment or whose alias equals the reference is appended, parsed, in
\* declared order; an import parsed from the reference itself is appended
\* exactly once if and only if no declared import answers to it.
C2_ReconcilePerKey ==
    Returned("GetImportsFromJSON") => ret = EntriesForAll(arg.json.Imports, refs)

\* a returned list where one reference is answered by two declared imports
\* and another by none
C2_Witness ==
    /\ Returned("GetImportsFromJSON")
    /\ \E i, j \in DOMAIN refs :
          /\ Len(Answering(arg.json.Imports, refs[i])) = 2
          /\ Answering(arg.json.Imports, refs[j]) = <<>>
          /\ Len(ret) = 3

\* every reference a tree holds under a "ref" key, trimmed
RECURSIVE AllRefs(_)
AllRefs(v) ==
    CASE v.t = "map" ->
            UNION {IF k = "ref" /\ v.kv[k].t = "str" THEN {Trim(v.kv[k].s, "#")}
                   ELSE AllRefs(v.kv[k]) : k \in DOMAIN v.kv}
      [] v.t = "seq" -> UNION {AllRefs(v.e[i]) : i \in DOMAIN v.e}
      [] OTHER -> {}

\* rs lists references of the tree v with those of element i of every
\* sequence before those of element i+1; a mapping that holds only a "ref"
\* gives that one reference
RECURSIVE InOrder(_, _)
RECURSIVE ElementsInOrder(_, _)
ElementsInOrder(e, rs) ==
    IF e = <<>> THEN rs = <<>>
    ELSE \E k \in 0..Len(rs) :
            /\ InOrder(Head(e), SliceTo(rs, k))
            /\ ElementsInOrder(Tail(e), SliceFrom(rs, k))

InOrder(v, rs) ==
    CASE v.t = "map" ->
            IF DOMAIN v.kv = {"ref"} /\ v.kv["ref"].t = "str"
            THEN rs = <<Trim(v.kv["ref"].s, "#")>>
            ELSE \A i \in DOMAIN rs : rs[i] \in AllRefs(v)
      [] v.t = "seq" -> ElementsInOrder(v.e, rs)
      [] OTHER -> rs = <<>>

\* C3: the returned list follows the order of discovery, not of declaration:
\* the entries for the references under triggers come first, then those for
\* the references under resources, then those for the references under
\* actions, and inside a sequence element i's come before element i+1's.
C3_DiscoveryOrder ==
    /\ Returned("GetImportsFromJSON") =>
          /\ \E p, q \in 0..Len(refs) :
                /\ p <= q
                /\ InOrder(JSeq(arg.json.Triggers), SliceTo(refs, p))
                /\ InOrder(JSeq(arg.json.Resources), SubSeq(refs, p + 1, q))
                /\ InOrder(JSeq(arg.json.Actions), SliceFrom(refs, q))
          /\ ret = EntriesForAll(arg.json.Imports, refs)
    /\ Returned("extractDependencies") => InOrder(arg, ret)

\* a trigger and an action with different references, each answered by one
\* declared import, the imports declared in the opposite order
C3_Witness ==
    /\ Returned("GetImportsFromJSON")
    /\ Len(arg.json.Triggers) = 1
    /\ Len(arg.json.Actions) = 1
    /\ Len(refs) = 2
    /\ refs[1] # refs[2]
    /\ Len(arg.json.Imports) = 2
    /\ ret = <<ParseImport(arg.json.Imports[2]).imp,
               ParseImport(arg.json.Imports[1]).imp>>

\* a mapping somewhere in the tree has a "ref" that is not a string
RECURSIVE HasNonStringRef(_)
HasNonStringRef(v) ==
    CASE v.t = "map" ->
            \E k \in DOMAIN v.kv :
                IF k = "ref" THEN v.kv[k].t # "str" ELSE HasNonStringRef(v.kv[k])
      [] v.t = "seq" -> \E i \in DOMAIN v.e : HasNonStringRef(v.e[i])
      [] OTHER -> FALSE

\* C7: when the tree walked holds a "ref" whose value is not a string, the
\* caller of GetImportsFromJSON gets a TypeMismatch error: the value is not
\* taken as a reference and the process does not crash.
C7_NonStringRefIsTypeMismatch ==
    (/\ pc = "done"
     /\ op = "GetImportsFromJSON"
     /\ arg.status = "ok"
     /\ \/ HasNonStringRef(JSeq(arg.json.Triggers))
        \/ HasNonStringRef(JSeq(arg.json.Resources))
        \/ HasNonStringRef(JSeq(arg.json.Actions)))
        => /\ crash = "none"
           /\ err.kind = "TypeMismatch"
           /\ ret = Nil

(***************************************************************************)
(* strings.ToLower, on the ASCII letters.                                  *)
(***************************************************************************)
UpperCase == <<"A", "B", "C", "D", "E", "F", "G", "H", "I", "J", "K", "L", "M",
               "N", "O", "P", "Q", "R", "S", "T", "U", "V", "W", "X", "Y", "Z">>
LowerCase == <<"a", "b", "c", "d", "e", "f", "g", "h", "i", "j", "k", "l", "m",
               "n", "o", "p", "q", "r", "s", "t", "u", "v", "w", "x", "y", "z">>

UpperToLower ==
    [c \in {UpperCase[i] : i \in DOMAIN UpperCase} |->
        LowerCase[CHOOSE i \in DOMAIN UpperCase : UpperCase[i] = c]]

ToLowerChar(c) == IF c \in DOMAIN UpperToLower THEN UpperToLower[c] ELSE c

ToLower(s) == [i \in DOMAIN s |-> ToLowerChar(s[i])]

(***************************************************************************)
(* isDescriptorFileName, flogo.go:114-123: <<isDescFile, isLegacyFile>>.   *)
(***************************************************************************)
DescriptorJson == <<"d", "e", "s", "c", "r", "i", "p", "t", "o", "r", ".", "j", "s", "o", "n">>
ActionJson     == <<"a", "c", "t", "i", "o", "n", ".", "j", "s", "o", "n">>
TriggerJson    == <<"t", "r", "i", "g", "g", "e", "r", ".", "j", "s", "o", "n">>
ActivityJson   == <<"a", "c", "t", "i", "v", "i", "t", "y", ".", "j", "s", "o", "n">>

\* the mutant of isDescriptorFileName that compares the name as it is
isDescriptorFileName_CaseSensitive(fileName) ==
    CASE fileName = DescriptorJson -> <<TRUE, FALSE>>
      [] fileName \in {ActionJson, TriggerJson, ActivityJson} -> <<TRUE, TRUE>>
      [] OTHER -> <<FALSE, FALSE>>

isDescriptorFileName(fileName) ==
    LET fileNameLC == ToLower(fileName)
    IN  CASE fileNameLC = DescriptorJson -> <<TRUE, FALSE>>
          [] fileNameLC \in {ActionJson, TriggerJson, ActivityJson} -> <<TRUE, TRUE>>
          [] OTHER -> <<FALSE, FALSE>>

(***************************************************************************)
(* ReadContribDescriptor, flogo.go:224-244: the descriptor decoded, the    *)
(* error, and the handles left open (the file is never closed).            *)
(***************************************************************************)
ReadContribDescriptor(file) ==
    CASE file.status = "missing" ->
            [desc |-> Nil, err |-> Error("IOError", "open"), leaked |-> 0]
      [] file.status = "unreadable" ->
            [desc |-> Nil, err |-> Error("IOError", "read"), leaked |-> 1]
      [] file.status = "malformed" ->
            [desc |-> Nil, err |-> Error("ParseError", "unmarshal"), leaked |-> 1]
      [] OTHER ->
            [desc |-> [Type |-> file.json.Type, Ref |-> file.json.Ref,
                       IsLegacy |-> FALSE],
             err |-> NoErr, leaked |-> 1]

(***************************************************************************)
(* GetContribDescriptor, flogo.go:82-112.  The message it prints when the  *)
(* listing fails changes no state and is left out.                         *)
(***************************************************************************)
\* the mutant of ScanEntries that returns the first read or parse error
RECURSIVE ScanEntries_FailFast(_, _, _)
ScanEntries_FailFast(files, i, leaked) ==
    IF i > Len(files) THEN [ret |-> Nil, err |-> NoErr, leaked |-> leaked]
    ELSE LET f    == files[i]
             kind == isDescriptorFileName(f.name)
             read == ReadContribDescriptor(f.file)
         IN  IF ~kind[1] THEN ScanEntries_FailFast(files, i + 1, leaked)
             ELSE IF read.err # NoErr
                  THEN [ret |-> Nil, err |-> read.err, leaked |-> leaked + read.leaked]
                  ELSE IF read.desc.Type = <<>>
                       THEN ScanEntries_FailFast(files, i + 1, leaked + read.leaked)
                       ELSE IF kind[2] /\ read.desc.Ref = <<>>
                            THEN [ret |-> Nil,
                                  err |-> Error("InvalidDescriptor", f.name),
                                  leaked |-> leaked + read.leaked]
                            ELSE [ret |-> [read.desc EXCEPT !.IsLegacy = kind[2]],
                                  err |-> NoErr,
                                  leaked |-> leaked + read.leaked]

\* lines 91-111: the loop over the listing from its i-th entry on
RECURSIVE ScanEntries(_, _, _)
ScanEntries(files, i, leaked) ==
    IF i > Len(files) THEN [ret |-> Nil, err |-> NoErr, leaked |-> leaked]
    ELSE LET f    == files[i]
             kind == isDescriptorFileName(f.name)
             read == ReadContribDescriptor(f.file)
         IN  IF ~kind[1] THEN ScanEntries(files, i + 1, leaked)
             ELSE IF read.err # NoErr \/ read.desc.Type = <<>>
                  THEN ScanEntries(files, i + 1, leaked + read.leaked)
                  ELSE IF kind[2] /\ read.desc.Ref = <<>>
                       THEN [ret |-> Nil,
                             err |-> Error("InvalidDescriptor", f.name),
                             leaked |-> leaked + read.leaked]
                       ELSE [ret |-> [read.desc EXCEPT !.IsLegacy = kind[2]],
                             err |-> NoErr,
                             leaked |-> leaked + read.leaked]

GetContribDescriptor(dir) ==
    IF dir.status # "ok"
    THEN [ret |-> Nil, err |-> Error("IOError", "readdir"), leaked |-> 0]
    ELSE ScanEntries(dir.files, 1, 0)

\* the file names of a directory, in the order ioutil.ReadDir lists them
\* (sorted by name, capitals first)
SortedNames == <<<<"T", "r", "i", "g", "g", "e", "r", ".", "j", "s", "o", "n">>,
                <<"a", "c", "t", "i", "o", "n", ".", "j", "s", "o", "n">>,
                <<"a", "c", "t", "i", "v", "i", "t", "y", ".", "j", "s", "o", "n">>,
                <<"d", "e", "s", "c", "r", "i", "p", "t", "o", "r", ".", "j", "s", "o", "n">>,
                <<"r", "e", "a", "d", "m", "e", ".", "m", "d">>,
                <<"t", "r", "i", "g", "g", "e", "r", ".", "j", "s", "o", "n">>>>

\* what a descriptor file may hold
TypeStrs  == {<<>>, <<"t", ":", "x">>}
DescRefs  == {<<>>, <<"x">>}
DescFiles ==
    {Unreadable, Malformed}
        \cup {Holding([Type |-> t, Ref |-> r]) : t \in TypeStrs, r \in DescRefs}

\* the i-th smallest element of a set of numbers
Nth(D, i) == CHOOSE d \in D : Cardinality({e \in D : e < d}) = i - 1

\* the listing of the names numbered D, holding the files f
Listing(D, f) ==
    [i \in 1..Cardinality(D) |->
        [name |-> SortedNames[Nth(D, i)], file |-> f[Nth(D, i)]]]

\* one call on a path that holds dir
GetContribDescriptorOn(dir) ==
    LET o == GetContribDescriptor(dir)
    IN  /\ arg' = dir
        /\ ret' = o.ret
        /\ err' = o.err
        /\ openFiles' = openFiles + o.leaked

CallGetContribDescriptor ==
    /\ pc = "call"
    /\ \/ GetContribDescriptorOn(Missing)
       \/ \E D \in SUBSET DOMAIN SortedNames :
             /\ Cardinality(D) <= MaxEntries
             /\ \E f \in [D -> DescFiles] :
                   GetContribDescriptorOn([status |-> "ok", files |-> Listing(D, f)])
    /\ pc' = "done"
    /\ op' = "GetContribDescriptor"
    /\ UNCHANGED <<crash, called, refs>>

LegacyNames == {ActionJson, TriggerJson, ActivityJson}

\* the entries of the listing that are candidates by name, parse and have a
\* non-empty Type
Qualifying(files) ==
    {i \in DOMAIN files :
        /\ ToLower(files[i].name) \in LegacyNames \cup {DescriptorJson}
        /\ files[i].file.status = "ok"
        /\ files[i].file.json.Type # <<>>}

First(S) == CHOOSE i \in S : \A j \in S : i <= j

\* C5: the first candidate in listing order that parses with a non-empty
\* Type decides: a legacy name with an empty ref gives an InvalidDescriptor
\* error naming the file and no descriptor, whatever follows; otherwise that
\* descriptor is returned, IsLegacy true exactly for a legacy name.
C5_FirstQualifyingDecides ==
    (/\ pc = "done"
     /\ op = "GetContribDescriptor"
     /\ arg.status = "ok"
     /\ Qualifying(arg.files) # {})
        => LET f      == arg.files[First(Qualifying(arg.files))]
               legacy == ToLower(f.name) \in LegacyNames
           IN  IF legacy /\ f.file.json.Ref = <<>>
               THEN /\ err = Error("InvalidDescriptor", f.name)
                    /\ ret = Nil
               ELSE /\ err = NoErr
                    /\ ret = [Type |-> f.file.json.Type, Ref |-> f.file.json.Ref,
                              IsLegacy |-> legacy]

\* a legacy file without ref, listed before a valid descriptor.json, ended
\* the call with InvalidDescriptor
C5_Witness ==
    /\ pc = "done"
    /\ op = "GetContribDescriptor"
    /\ err.kind = "InvalidDescriptor"
    /\ \E i \in Qualifying(arg.files) :
          /\ i > First(Qualifying(arg.files))
          /\ arg.files[i].name = DescriptorJson

\* C6: a candidate that cannot be read or parsed, or has an empty Type,
\* neither ends the scan nor produces an error; when no entry qualifies the
\* call returns no descriptor and no error.
C6_BadCandidatesAreSkipped ==
    (pc = "done" /\ op = "GetContribDescriptor" /\ arg.status = "ok")
        => LET qualifying == Qualifying(arg.files)
           IN  /\ crash = "none"
               /\ err.kind \in {"nil", "InvalidDescriptor"}
               /\ qualifying = {} => (ret = Nil /\ err = NoErr)
               /\ qualifying # {} => (ret # Nil \/ err # NoErr)

\* an unreadable candidate and a malformed one, nothing qualifying: not found
C6_Witness ==
    /\ pc = "done"
    /\ op = "GetContribDescriptor"
    /\ arg.status = "ok"
    /\ Qualifying(arg.files) = {}
    /\ \E i, j \in DOMAIN arg.files :
          /\ isDescriptorFileName(arg.files[i].name)[1]
          /\ isDescriptorFileName(arg.files[j].name)[1]
          /\ arg.files[i].file.status = "unreadable"
          /\ arg.files[j].file.status = "malformed"
    /\ ret = Nil
    /\ err = NoErr

(***************************************************************************)
(* getImports, flogo.go:168-187: the declared imports, the error, and the  *)
(* handles left open (the file is never closed).                           *)
(***************************************************************************)
getImports(file) ==
    CASE file.status = "missing" ->
            [imports |-> <<>>, err |-> Error("IOError", "open"), leaked |-> 0]
      [] file.status = "unreadable" ->
            [imports |-> <<>>, err |-> Error("IOError", "read"), leaked |-> 1]
      [] file.status = "malformed" ->
            [imports |-> <<>>, err |-> Error("ParseError", "unmarshal"), leaked |-> 1]
      [] OTHER ->
            [imports |-> file.json.Imports, err |-> NoErr, leaked |-> 1]

(***************************************************************************)
(* getImportsLegacy, flogo.go:189-222.  The lines are shorter than the     *)
(* scanner's buffer, so scanner.Err() is nil.  The deferred Close runs on  *)
(* every way out of the function, a panic included.                        *)
(***************************************************************************)
RefKey == <<Q, "r", "e", "f", Q>>

\* lines 200-209: the scan from the i-th line on; a slice or an index out
\* of range is a runtime panic
RECURSIVE ScanLines(_, _, _)
ScanLines(lines, i, importSet) ==
    IF i > Len(lines) THEN [importSet |-> importSet, crash |-> "none"]
    ELSE LET line == lines[i]
             idx  == Index(line, RefKey)
         IN  IF idx > -1
             THEN IF idx + 6 > Len(line)
                  THEN [importSet |-> {}, crash |-> "panic"]
                  ELSE LET startPkgIdx == Index(SliceFrom(line, idx + 6), <<Q>>)
                           parts == Split(SliceFrom(line, idx + 6 + startPkgIdx), <<Q>>)
                       IN  IF Len(parts) < 2
                           THEN [importSet |-> {}, crash |-> "panic"]
                           ELSE ScanLines(lines, i + 1, importSet \cup {parts[2]})
             ELSE ScanLines(lines, i + 1, importSet)

getImportsLegacy(file) ==
    IF file.status = "missing"
    THEN [imports |-> {}, err |-> NoErr, crash |-> "fatal"]
    ELSE LET scan == ScanLines(file.lines, 1, {})
         IN  [imports |-> scan.importSet, err |-> NoErr, crash |-> scan.crash]

(***************************************************************************)
(* GetImports, flogo.go:126-166.                                           *)
(***************************************************************************)
Range(s) == {s[i] : i \in DOMAIN s}

\* the mutant of NeedsLegacyScan that scans every file
NeedsLegacyScan_Always(imports) == TRUE

\* line 139
NeedsLegacyScan(imports) == Len(imports) = 0

\* lines 157-163: the imports parsed in the order allImports holds them
RECURSIVE ParseAll(_, _, _)
ParseAll(allImports, i, result) ==
    IF i > Len(allImports) THEN [ret |-> result, err |-> NoErr]
    ELSE LET parsed == ParseImport(allImports[i])
         IN  IF parsed.err # NoErr THEN [ret |-> Nil, err |-> parsed.err]
             ELSE ParseAll(allImports, i + 1, Append(result, parsed.imp))

\* every way the call may end; allImports takes the keys of importSet in any
\* order (lines 152-154)
GetImports(file) ==
    LET declared == getImports(file)
    IN  IF declared.err # NoErr
        THEN {[ret |-> Nil, err |-> declared.err, crash |-> "none",
               called |-> {"getImports"}, leaked |-> declared.leaked]}
        ELSE IF NeedsLegacyScan(declared.imports)
             THEN LET legacy == getImportsLegacy(file)
                      both   == {"getImports", "getImportsLegacy"}
                  IN  IF legacy.crash # "none"
                      THEN {[ret |-> Nil, err |-> NoErr, crash |-> legacy.crash,
                             called |-> both, leaked |-> declared.leaked]}
                      ELSE {LET r == ParseAll(allImports, 1, <<>>)
                            IN  [ret |-> r.ret, err |-> r.err, crash |-> "none",
                                 called |-> both, leaked |-> declared.leaked]
                              : allImports \in
                                  Orders(Range(declared.imports) \cup legacy.imports)}
             ELSE {LET r == ParseAll(allImports, 1, <<>>)
                   IN  [ret |-> r.ret, err |-> r.err, crash |-> "none",
                        called |-> {"getImports"}, leaked |-> declared.leaked]
                     : allImports \in Orders(Range(declared.imports))}

\* the lines of a descriptor: plain lines, and lines with anything after the
\* "ref" key.  A text is up to MaxLines lines: plain lines, among them at
\* most one line of the other kind when the descriptor declares no import.
RefLine(value) == <<" ">> \o RefKey \o <<":", " ", Q>> \o value \o <<Q, ",">>
PlainLines == {<<"{">>, RefLine(<<"x", "/", "b">>), RefLine(<<"y">>)}
TailChars  == {Q, ":", "x"}
KeyLines   == {indent \o RefKey \o tail
                 : indent \in {<<>>, <<" ">>}, tail \in StringsUpTo(TailChars, MaxTail)}

AppFile(imports, lines) ==
    [status |-> "ok", json |-> [Imports |-> imports], lines |-> lines]

\* the text t with the line put in after its k-th line
WithLine(t, k, line) == SliceTo(t, k) \o <<line>> \o SliceFrom(t, k)

\* one call on a path that holds file
GetImportsOn(file) ==
    /\ arg' = file
    /\ \E o \in GetImports(file) :
          /\ ret' = o.ret
          /\ err' = o.err
          /\ crash' = o.crash
          /\ called' = o.called
          /\ openFiles' = openFiles + o.leaked

CallGetImports ==
    /\ pc = "call"
    /\ \/ \E file \in {Missing, Unreadable, Malformed} : GetImportsOn(file)
       \/ \E imports \in SeqsUpTo(ImportStrs, MaxImports),
             t \in SeqsUpTo(PlainLines, MaxLines) :
             GetImportsOn(AppFile(imports, t))
       \/ \E t \in SeqsUpTo(PlainLines, MaxLines - 1), line \in KeyLines :
             \E k \in 0..Len(t) :
                GetImportsOn(AppFile(<<>>, WithLine(t, k, line)))
    /\ pc' = "done"
    /\ op' = "GetImports"
    /\ UNCHANGED refs

\* C8: GetImports returns one parsed import per distinct import string; the
\* legacy scanner runs if and only if the descriptor declares no import, so
\* with an import declared nothing found only by scanning is returned.
C8_DistinctImportsLegacyOnlyWhenNone ==
    (pc = "done" /\ op = "GetImports" /\ arg.status = "ok")
        => LET declared == Range(arg.json.Imports)
               scanned  == getImportsLegacy(arg).imports
           IN  /\ "getImportsLegacy" \in called <=> declared = {}
               /\ (crash = "none" /\ err = NoErr) =>
                    /\ Len(ret) = Cardinality(IF declared = {} THEN scanned
                                              ELSE declared)
                    /\ Range(ret) = {ParseImport(str).imp
                                       : str \in IF declared = {} THEN scanned
                                                 ELSE declared}

\* one import declared twice, a text whose "ref" lines name other packages:
\* one entry returned
C8_Witness ==
    /\ Returned("GetImports")
    /\ Len(arg.json.Imports) = 2
    /\ arg.json.Imports[1] = arg.json.Imports[2]
    /\ getImportsLegacy(arg).imports \ Range(arg.json.Imports) # {}
    /\ Len(ret) = 1

\* C9: every file handle an operation opens is released before it returns,
\* on success and on every error path: no handle stays open after a call.
C9_NoHandleLeftOpen ==
    pc = "done" => openFiles = 0

\* C10: getImportsLegacy is total over line contents: whatever follows the
\* "ref" key on a line (nothing, no quote, one quote), every slice and index
\* stays in bounds and the scan returns instead of crashing.
C10_LegacyScanNeverCrashes ==
    (pc = "done" /\ op = "GetImports" /\ "getImportsLegacy" \in called)
        => crash = "none"

(***************************************************************************)
(* The library: one call of one of its functions.                          *)
(***************************************************************************)
Next ==
    \/ CallParseImportPath
    \/ CallExtractDependencies
    \/ CallGetImportsFromJSON
    \/ CallGetContribDescriptor
    \/ CallGetImports

Spec == Init /\ [][Next]_vars
====
